---------------------------- MODULE Spec2Model ----------------------------
(***************************************************************************)
(* Payload execution of pilot3: Executor.run and Executor.wait_graceful    *)
(* (src/pilot/control/payloads/generic.py), together with the payload      *)
(* process group they supervise and the cancellation flag                  *)
(* args.graceful_stop set by the interrupt handler                         *)
(* (src/pilot/workflow/generic.py).                                        *)
(*                                                                         *)
(* Further specifications examine parts on their own: one call of         *)
(* wait_graceful (FairWaitSpec), extract_setup on any command string       *)
(* (ExtractSpec), the rewrite of the job parameters in the command on any  *)
(* strings (ReplaceSpec), run(args) of the workflow with its queues and    *)
(* worker threads (WorkflowSpec), its join loop with workers that may      *)
(* crash (FairWorkflowSpec), the download of the user transform            *)
(* (TransformSpec, src/pilot/user/rubin/setup.py) and the file-state       *)
(* table (FileStateSpec, src/pilot/util/filestate.py).                     *)
(*                                                                         *)
(* Time is counted in ticks of 0.1 s, the shortest sleep of wait_graceful. *)
(* The supervisor's code between two sleeps takes no time: a tick passes   *)
(* only while the supervisor sleeps.                                       *)
(***************************************************************************)
EXTENDS Integers, Sequences, FiniteSets, TLC

(* ------------------------------ constants ------------------------------ *)

\* time.sleep(0.1) at the top of the supervision loop, in ticks
ShortPoll == 1
\* time.sleep(1) between two checks of the cancellation flag, in ticks
CoarsePoll == 10
\* range(60): checks of the cancellation flag per outer cycle
ChecksPerCycle == 60
\* time.sleep(3) between SIGTERM and kill, in ticks
GracePeriod == 30
\* the reserved "no more HP points" exit code of the preprocess step
NoMoreDataPoints == 160

(* -------------------------------- bounds ------------------------------- *)

\* Executor.run loop iterations explored for an HPO job
MaxIterations == 2
\* saturation of the clock that measures how long a stop request is pending
StopPendingCap == 12
\* saturation of the clock that measures how long an exit is undetected
ExitPendingCap == 2
\* longest command string extract_setup is examined on
MaxCmdLen == 4
\* number of jobs that pass through the queues
MaxJobs == 2
\* longest job parameters string the rewrite of the command is examined on
MaxParamLen == 1

\* FileState instances created
MaxInstances == 2

(* ------------------------------- values -------------------------------- *)

\* Python's None and a set value, for exit_code
None == <<>>
Some(c) == <<c>>

\* exit codes a payload process ends with on its own
PayloadExitCodes == {0, 1}
\* exit codes of a preprocess / postprocess command
UtilityExitCodes == {0, 1, NoMoreDataPoints}
\* error codes a PilotException of the command builder carries
BuilderErrorCodes == {"NOSOFTWAREDIR"}
\* names of the after-payload-started utilities
UtilityNames == {"MemoryMonitor"}
\* the command string the command builder returns
PayloadCommand == "setup.sh; payload.exe"
\* the characters command strings are made of when extract_setup is examined
Chars == {"a", "b", ";", " "}

\* the characters job parameters are made of when the rewrite is examined
ParamChars == {"a", "b"}

\* pilot.util.constants.SUCCESS
SUCCESS == 0
\* targets of run(args), in the order of the list
Targets == <<"job", "payload", "data", "lifetime", "monitor">>
\* the threads that move jobs between queues
StageWorkers == {"job", "payload", "data"}
\* the fields of the queues namedtuple
QueueNames ==
    {"jobs", "payloads", "data_in", "data_out",
     "validated_jobs", "validated_payloads",
     "finished_jobs", "finished_payloads", "finished_data_in",
     "finished_data_out",
     "failed_jobs", "failed_payloads", "failed_data_in", "failed_data_out"}
\* the jobs of a pilot run, and no job
Jobs == 1..MaxJobs
NoJob == 0

VARIABLES
    pc,              \* position of Executor.run (wg_* : inside wait_graceful)
    job,             \* the job object: state, piloterrorcodes, is_hpo, utilities,
                     \* pid, pgrp
    cmd,             \* run: cmd
    exit_code,       \* run: exit_code (None or Some(code))
    iteration,       \* run: iteration
    proc,            \* run: proc, with the process group it is the handle of
    graceful_stop,   \* args.graceful_stop
    i,               \* wait_graceful: index of the for loop
    breaker,         \* wait_graceful: breaker
    timer,           \* ticks left of the sleep the supervisor is in
    trace_error_code,\* traces.pilot['error_code']
    ut_signals,      \* signals sent to the group of each utility handle
    launches,        \* number of calls of run_payload so far
    pre_exit,        \* what run_preprocess returned in the current iteration
    failures,        \* number of failure events so far
    errs_before,     \* length of the error list when the iteration began
    post_exit,       \* exit code of the postprocess command of the iteration
    hooks_used,      \* a utility hook gave a command (or raised) in the iteration
    ut_warned,       \* stop_utilities logged a warning in the iteration
    setup_cmd,       \* extract_setup: the command it is called with
    setup,           \* job.setup (None until extract_setup has returned)
    jobparams_pre,   \* run: jobparams_pre, job.jobparams before the preprocess
    jobparams_post,  \* run: jobparams_post, job.jobparams after the preprocess
    wpc,             \* position of the workflow's run(args)
    handler,         \* interrupt is installed as the handler of SIGINT
    threads,         \* run(args): state of each thread of threads
    starts,          \* number of calls of start() on each thread
    nth,             \* run(args): index in threads of the start loop
    queues,          \* content of each Queue object, oldest first
    held,            \* the job each stage worker has taken off a queue
    traces,          \* traces.pilot
    ret,             \* what run(args) returned (None: it has not returned)
    harvester_workdir,\* whether HARVESTER_WORKDIR is set in the environment
    trf,             \* get_analysis_trf: its locals and what it returned
    dl,              \* download_transform: its locals, with the curl runs
    _file_states,    \* FileState._file_states, the attribute of the class
    instances,       \* the FileState instances created so far
    update_args,     \* the instance and arguments of the last update call
    stop_pending,    \* ticks a stop request has been pending under supervision
    exit_pending     \* ticks a natural exit has been undetected under supervision

vars == <<pc, job, cmd, exit_code, iteration, proc, graceful_stop, i, breaker,
          timer, trace_error_code, ut_signals, launches, pre_exit, failures,
          errs_before, post_exit, hooks_used, ut_warned, setup_cmd,
          setup, jobparams_pre, jobparams_post, harvester_workdir, trf, dl,
          _file_states, instances, update_args, wpc, handler, threads, starts, nth, queues, held, traces, ret,
          stop_pending, exit_pending>>

\* what the history of the run is recorded in
history == <<launches, pre_exit, failures, errs_before, post_exit, hooks_used,
             ut_warned>>
\* the clocks of the pending stop request and of the undetected exit
clocks == <<stop_pending, exit_pending>>
\* the state that no step of Executor.run or of the payload process changes
workflow == <<wpc, handler, threads, starts, nth, queues, held, traces, ret>>
\* the job parameters as run reads them around the preprocess step
jobparams == <<jobparams_pre, jobparams_post>>
\* the state of the transform download and of the file-state table
\* the state of the file-state table
filestate == <<_file_states, instances, update_args>>

auxiliary == <<harvester_workdir, trf, dl, filestate>>
outside == <<setup_cmd, setup, jobparams, auxiliary, workflow>>

\* run: proc = None (no payload process)
NoProc == [status |-> "none", code |-> 0, helper |-> FALSE, sigterms |-> 0,
           kills |-> 0, before_stop |-> FALSE]

\* a payload process group as execute starts it: the leader is running and has
\* forked one helper child, which lives until it honours a SIGTERM
NewProc == [status |-> "running", code |-> 0, helper |-> TRUE, sigterms |-> 0,
            kills |-> 0, before_stop |-> FALSE]

\* job.utilities = {}: no utility name has an entry (0)
NoUtilities == [n \in UtilityNames |-> 0]

\* an entry of job.utilities whose process handle is empty (utproc is falsy)
EmptyHandle == -1

Min(a, b) == IF a < b THEN a ELSE b

(* ------------------------ collaborators (not in src) -------------------- *)

\* errors.add_error_code: the code is appended to the job's error list
add_error_code(codes, err) == Append(codes, err)

\* set_pilot_state(job, state)
set_pilot_state(j, s) == [j EXCEPT !.state = s]

(* ------------------------------ Executor -------------------------------- *)

\* the characters of a command string: the empty command, or a setup clause
\* and a payload clause
CommandText(c) == IF c = "" THEN <<>> ELSE <<"a", ";", " ", "b">>

\* str.strip(): leading and trailing white space removed
RECURSIVE lstrip(_)
lstrip(s) == IF s # <<>> /\ Head(s) = " " THEN lstrip(Tail(s)) ELSE s
RECURSIVE rstrip(_)
rstrip(s) ==
    IF s # <<>> /\ s[Len(s)] = " " THEN rstrip(SubSeq(s, 1, Len(s) - 1)) ELSE s
strip(s) == rstrip(lstrip(s))

\* cmd.endswith(';')
endswith_semicolon(s) == s # <<>> /\ s[Len(s)] = ";"

\* cmd.split(';')[-1]: what follows the last semicolon
split_last(s) ==
    LET semis == {k \in 1..Len(s) : s[k] = ";"}
        last == IF semis = {} THEN 0
                ELSE CHOOSE k \in semis : \A m \in semis : m <= k
    IN  SubSeq(s, last + 1, Len(s))

\* str.replace(old, ''): every occurrence of old removed, scanning from the
\* left; an empty old leaves the string as it is
RECURSIVE replace_with_empty(_, _)
replace_with_empty(s, old) ==
    IF old = <<>> \/ Len(s) < Len(old) THEN s
    ELSE IF SubSeq(s, 1, Len(old)) = old
         THEN replace_with_empty(SubSeq(s, Len(old) + 1, Len(s)), old)
         ELSE <<Head(s)>> \o replace_with_empty(Tail(s), old)

\* extract_setup(cmd)
extract_setup(command) ==
    LET stripped == strip(command)
        c == IF endswith_semicolon(stripped)
             THEN SubSeq(stripped, 1, Len(stripped) - 1) ELSE stripped
        last_bit == split_last(c)
    IN  replace_with_empty(c, strip(last_bit))

\* execute_utility_command: the job after the command ended with code ec
execute_utility_command(j, label, ec) ==
    LET err == IF label = "preprocess" THEN "PREPROCESSFAILURE"
               ELSE IF label = "postprocess" THEN "POSTPROCESSFAILURE"
               ELSE "UNKNOWNPAYLOADFAILURE"
    IN  IF ec # 0 /\ ec # NoMoreDataPoints
        THEN [j EXCEPT !.piloterrorcodes = add_error_code(@, err)]
        ELSE j

\* run_preprocess: the job after the call; has_cmd says whether
\* utility_before_payload returned a command, ec is the command's exit code
run_preprocess_job(j, has_cmd, ec) ==
    IF ~has_cmd THEN j
    ELSE LET j1 == execute_utility_command(j, "preprocess", ec)
         IN  IF ec = NoMoreDataPoints THEN j1
             ELSE IF ec # 0
                  THEN [j1 EXCEPT !.piloterrorcodes =
                                      add_error_code(@, "PREPROCESSFAILURE")]
                  ELSE j1

\* run_preprocess: the exit code it returns
run_preprocess_code(has_cmd, ec) == IF has_cmd THEN ec ELSE 0

\* line 447-450: what run does with the exit code of run_preprocess
\* (preprocess_break: leave the loop; preprocess_exit_code: run's exit_code)
preprocess_break(code) == code # 0
\* line 448-449 left out: the sentinel is returned as it is
preprocess_exit_code_raw(code) == code
preprocess_exit_code(code) == IF code = NoMoreDataPoints THEN 0 ELSE code

\* queues.payloads is bound to the Queue object of queues.jobs
queue_object_aliased(name) == IF name = "payloads" THEN "jobs" ELSE name

\* line 71-87: every field of queues is bound to a Queue object of its own
queue_object(name) == name

\* the jobs on the queue a field of queues names
on_queue(name) == queues[queue_object(name)]

\* no transform is being downloaded and no FileState has been created
AuxiliaryIdle ==
    /\ harvester_workdir = FALSE
    /\ trf = <<>>
    /\ dl = <<>>
    /\ _file_states = <<>>
    /\ instances = <<>>
    /\ update_args = <<>>

\* the workflow while a payload is executed: the orchestrator is in its join
\* loop, every worker runs, and the payload worker holds the job
WorkflowJoining ==
    /\ wpc = "join_check"
    /\ handler = TRUE
    /\ threads = [t \in 1..Len(Targets) |-> "started"]
    /\ starts = [t \in 1..Len(Targets) |-> 1]
    /\ nth = 0
    /\ queues = [q \in QueueNames |-> <<>>]
    /\ held = [w \in StageWorkers |-> IF w = "payload" THEN 1 ELSE NoJob]
    /\ traces = [state |-> SUCCESS, nr_jobs |-> 1]
    /\ ret = None

Init ==
    /\ pc = "start"
    /\ job \in [state : {"setup"}, piloterrorcodes : {<<>>},
                is_hpo : BOOLEAN, utilities : {NoUtilities}, pid : {0},
                pgrp : {0}]
    /\ cmd = ""
    /\ exit_code = None
    /\ iteration = 1
    /\ proc = NoProc
    /\ graceful_stop = FALSE
    /\ i = 0
    /\ breaker = FALSE
    /\ timer = 0
    /\ trace_error_code = ""
    /\ ut_signals = [k \in 1..MaxIterations |-> 0]
    /\ launches = 0
    /\ pre_exit = None
    /\ failures = 0
    /\ errs_before = 0
    /\ post_exit = None
    /\ hooks_used = FALSE
    /\ ut_warned = FALSE
    /\ setup_cmd = <<>>
    /\ setup = None
    /\ jobparams_pre = <<>>
    /\ jobparams_post = <<>>
    /\ WorkflowJoining
    /\ stop_pending = 0
    /\ exit_pending = 0
    /\ AuxiliaryIdle

(* ------------------------------ environment ----------------------------- *)

\* the flag is flipped instead of set
Event_toggle(flag) == ~flag

\* threading.Event.set() of args.graceful_stop
Event_set(flag) == TRUE

\* interrupt(args, signum, frame): logs the name of the signal and sets
\* args.graceful_stop.  (The module is Python 2 code: it imports Queue and the
\* handler calls dict.iteritems, so the handler runs to its last line.)
Interrupt ==
    /\ handler
    /\ graceful_stop' = Event_set(graceful_stop)
    /\ UNCHANGED <<outside, pc, job, cmd, exit_code, iteration, proc, i,
                   breaker, timer, trace_error_code, ut_signals, history, clocks>>

\* the payload process ends on its own with exit code c
PayloadExit ==
    /\ proc.status = "running"
    /\ \E c \in PayloadExitCodes :
          proc' = [proc EXCEPT !.status = "exited", !.code = c,
                               !.before_stop = ~graceful_stop]
    /\ UNCHANGED <<outside, pc, job, cmd, exit_code, iteration, graceful_stop, i, breaker,
                   timer, trace_error_code, ut_signals, history, clocks>>

\* the helper child of the payload honours a SIGTERM it received and ends
HelperExit ==
    /\ proc.helper
    /\ proc.sigterms > 0
    /\ proc' = [proc EXCEPT !.helper = FALSE]
    /\ UNCHANGED <<outside, pc, job, cmd, exit_code, iteration, graceful_stop, i, breaker,
                   timer, trace_error_code, ut_signals, history, clocks>>

\* the sleeps of wait_graceful
SleepPcs == {"wg_sleep_short", "wg_sleep_coarse", "wg_grace"}
\* the positions inside wait_graceful
WaitPcs == SleepPcs \cup {"wg_for", "wg_poll"}

\* 0.1 s passes while the supervisor sleeps; measured says whether the two
\* clocks are kept (they are read only where one call of wait_graceful is
\* examined on its own)
Elapse(measured) ==
    /\ pc \in SleepPcs
    /\ timer > 0
    /\ timer' = timer - 1
    /\ stop_pending' = IF measured /\ graceful_stop /\ ~breaker
                       THEN Min(stop_pending + 1, StopPendingCap)
                       ELSE 0
    /\ exit_pending' = IF measured /\ proc.status = "exited" /\ ~graceful_stop
                       THEN Min(exit_pending + 1, ExitPendingCap)
                       ELSE 0
    /\ UNCHANGED <<outside, pc, job, cmd, exit_code, iteration, proc,
                   graceful_stop, i, breaker, trace_error_code, ut_signals,
                   history>>

\* a tick with the clocks kept
Tick == Elapse(TRUE)

\* a tick during a whole run of Executor.run
TickRun == Elapse(FALSE)

(* ---------------------------- process signals --------------------------- *)

\* no SIGTERM is sent to the group
killpg_SIGTERM_omitted(p) == p

\* os.killpg(os.getpgid(proc.pid), signal.SIGTERM): every member of the group
\* receives SIGTERM; what each does with it is up to the member
killpg_SIGTERM(p) == [p EXCEPT !.sigterms = @ + 1]

\* proc.terminate() in place of proc.kill(): one more SIGTERM, to the leader
proc_kill_as_terminate(p) == [p EXCEPT !.sigterms = @ + 1]

\* proc.kill(): SIGKILL to the leader pid only
proc_kill(p) ==
    [p EXCEPT !.status = IF @ = "running" THEN "killed" ELSE @,
              !.kills = @ + 1]

\* proc.poll(): the exit code of an ended process (the negated signal number
\* of a killed one), else None
proc_poll(p) ==
    IF p.status = "exited" THEN Some(p.code)
    ELSE IF p.status = "killed" THEN Some(-9)
    ELSE None

(* ----------------------------- wait_graceful ---------------------------- *)
(* The iteration counter of wait_graceful only feeds the log line of line  *)
(* 346-347 and is left out.  The index i is reset when the for loop is     *)
(* left, where the code no longer reads it.                                *)

\* line 327-330: the short sleep is over, the for loop starts
WgTop ==
    /\ pc = "wg_sleep_short"
    /\ timer = 0
    /\ pc' = "wg_for"
    /\ i' = 0
    /\ UNCHANGED <<outside, job, cmd, exit_code, iteration, proc, graceful_stop, breaker,
                   timer, trace_error_code, ut_signals, history, clocks>>

\* the check of line 331 never sees the flag
WgCheck_flag_unseen ==
    /\ pc = "wg_for"
    /\ pc' = "wg_sleep_coarse"
    /\ timer' = CoarsePoll
    /\ UNCHANGED <<outside, job, cmd, exit_code, iteration, proc, graceful_stop, i,
                   breaker, trace_error_code, ut_signals, history, clocks>>

\* line 331-337: one check of the cancellation flag
WgCheck ==
    /\ pc = "wg_for"
    /\ IF graceful_stop
       THEN /\ breaker' = TRUE
            /\ proc' = killpg_SIGTERM(proc)
            /\ pc' = "wg_grace"
            /\ timer' = GracePeriod
            /\ i' = 0
            /\ stop_pending' = 0
       ELSE /\ pc' = "wg_sleep_coarse"
            /\ timer' = CoarsePoll
            /\ UNCHANGED <<breaker, proc, i, stop_pending>>
    /\ UNCHANGED <<outside, job, cmd, exit_code, iteration, graceful_stop,
                   trace_error_code, ut_signals, history, exit_pending>>

\* line 330, 337: the coarse sleep is over, next index of the for loop
WgNext ==
    /\ pc = "wg_sleep_coarse"
    /\ timer = 0
    /\ IF i + 1 < ChecksPerCycle
       THEN pc' = "wg_for" /\ i' = i + 1
       ELSE pc' = "wg_poll" /\ i' = 0
    /\ UNCHANGED <<outside, job, cmd, exit_code, iteration, proc, graceful_stop, breaker,
                   timer, trace_error_code, ut_signals, history, clocks>>

\* the process is polled once more after the kill
cancelled_exit_code_polled(p) == proc_poll(p)

\* line 321, 338-342, 354: on the cancellation path exit_code is what the
\* last poll left, which is None (any other value had ended the loop), and
\* the process p is not polled again
cancelled_exit_code(p) == None

\* line 338-342, 354: the grace period is over: kill, return exit_code (unset)
WgKill ==
    /\ pc = "wg_grace"
    /\ timer = 0
    /\ proc' = proc_kill(proc)
    /\ exit_code' = cancelled_exit_code(proc_kill(proc))
    /\ pc' = "classify"
    /\ stop_pending' = 0
    /\ exit_pending' = 0
    /\ UNCHANGED <<outside, job, cmd, iteration, graceful_stop, i, breaker, timer,
                   trace_error_code, ut_signals, history>>

\* line 344-354: poll the exit status; return it when the payload has ended
WgPoll ==
    /\ pc = "wg_poll"
    /\ IF proc_poll(proc) # None
       THEN /\ exit_code' = proc_poll(proc)
            /\ pc' = "classify"
            /\ stop_pending' = 0
            /\ exit_pending' = 0
            /\ UNCHANGED timer
       ELSE /\ pc' = "wg_sleep_short"
            /\ timer' = ShortPoll
            /\ UNCHANGED <<exit_code, stop_pending, exit_pending>>
    /\ UNCHANGED <<outside, job, cmd, iteration, proc, graceful_stop, i, breaker,
                   trace_error_code, ut_signals, history>>

(* ------------------------------ Executor.run ---------------------------- *)

\* get_payload_command: the command builder returns the command ("ok") or
\* raises a PilotException carrying an error code
get_payload_command(j, outcome) ==
    IF outcome = "ok"
    THEN [cmd |-> PayloadCommand, job |-> j, error_code |-> ""]
    ELSE LET codes == add_error_code(j.piloterrorcodes, outcome)
         IN  [cmd |-> "", job |-> [j EXCEPT !.piloterrorcodes = codes],
              error_code |-> codes[1]]

\* line 431-439: resolve the payload command once, before the loop, and
\* derive job.setup from it.  An exception of the builder that is no
\* PilotException leaves run
RunSetup ==
    /\ pc = "start"
    /\ \E outcome \in {"ok", "exception"} \cup BuilderErrorCodes :
          IF outcome = "exception"
          THEN /\ pc' = "raised"
               /\ UNCHANGED <<job, cmd, trace_error_code, errs_before, failures,
                              setup_cmd, setup>>
          ELSE LET r == get_payload_command(job, outcome)
               IN  /\ cmd' = r.cmd
                   /\ job' = r.job
                   /\ trace_error_code' = IF outcome = "ok" THEN trace_error_code
                                          ELSE r.error_code
                   /\ errs_before' = Len(r.job.piloterrorcodes)
                   /\ failures' = IF outcome = "ok" THEN failures
                                  ELSE failures + 1
                   /\ setup_cmd' = CommandText(r.cmd)
                   /\ setup' = Some(extract_setup(CommandText(r.cmd)))
                   /\ pc' = "preprocess"
    /\ UNCHANGED <<workflow, jobparams, auxiliary, exit_code, iteration, proc,
                   graceful_stop, i, breaker, timer, ut_signals, launches,
                   pre_exit, post_exit, hooks_used, ut_warned, clocks>>

\* line 444-454 with run_preprocess: the before-payload hook gives no command,
\* gives a command that ends with code ec, or raises (re-raised, leaves run).
\* The preprocess leaves the job parameters as they are here, so that line
\* 451 finds them equal; RewriteCommand covers the case that they differ
RunPreprocess ==
    /\ pc = "preprocess"
    /\ \E hook \in {"none", "command", "raises"} :
       \E ec \in IF hook = "command" THEN UtilityExitCodes ELSE {0} :
          /\ hooks_used' = (hooks_used \/ hook # "none")
          /\ IF hook = "raises"
             THEN /\ pc' = "raised"
                  /\ UNCHANGED <<job, exit_code, pre_exit, failures>>
             ELSE LET code == run_preprocess_code(hook = "command", ec)
                  IN  /\ job' = run_preprocess_job(job, hook = "command", ec)
                      /\ pre_exit' = Some(code)
                      /\ failures' = IF code \notin {0, NoMoreDataPoints}
                                     THEN failures + 1 ELSE failures
                      /\ exit_code' = IF preprocess_break(code)
                                      THEN Some(preprocess_exit_code(code))
                                      ELSE Some(code)
                      /\ pc' = IF preprocess_break(code) THEN "done" ELSE "launch"
    /\ UNCHANGED <<outside, cmd, iteration, proc, graceful_stop, i, breaker,
                   timer, trace_error_code, ut_signals, launches, errs_before,
                   post_exit, ut_warned, clocks>>

\* utility_after_payload_started: the table of utilities after the call in
\* run loop iteration k; hook is what the user hooks and execute do
utility_after_payload_started(utilities, hook, name, k) ==
    IF hook = "started" THEN [utilities EXCEPT ![name] = k]
    ELSE IF hook = "no_handle" THEN [utilities EXCEPT ![name] = EmptyHandle]
    ELSE utilities

\* utility_with_payload: returns the command of the with-payload hook; with
\* no such command the local cmd is read unbound (line 114), which raises
utility_with_payload_raises(hook) == hook # "command"

\* os.getpgid(pid) of a process that execute started: the process leads a
\* group of its own
getpgid(pid) == pid

\* the pid and the group are recorded, the state is left as it was
run_payload_job_state_kept(j, pid) ==
    [j EXCEPT !.pid = pid, !.pgrp = getpgid(pid)]

\* line 284-286: the job after run_payload has started the process pid
run_payload_job(j, pid) ==
    [set_pilot_state(j, "running") EXCEPT !.pid = pid, !.pgrp = getpgid(pid)]

\* a failed launch is followed by the end of the iteration, not of the loop
after_run_payload_continue(p) ==
    IF p = NoProc THEN "loop_end" ELSE "wg_sleep_short"

\* line 459-471: after run_payload run leaves the loop when proc is None,
\* else it enters wait_graceful
after_run_payload(p) == IF p = NoProc THEN "done" ELSE "wg_sleep_short"

\* line 457-460 with run_payload: the with-payload hook, then execute starts
\* the process, raises or returns a failed tuple; os.getpgid and the
\* after-payload-started hook may raise, after the process was started
RunPayload ==
    /\ pc = "launch"
    /\ launches' = launches + 1
    /\ \E with_payload \in {"command", "none", "raises"},
          outcome \in {"started", "raises", "failed_tuple"} :
          IF utility_with_payload_raises(with_payload)
          THEN /\ pc' = "raised"
               /\ UNCHANGED <<job, proc, breaker, timer, ut_signals, clocks,
                              failures, hooks_used>>
          ELSE IF outcome # "started"
          THEN /\ proc' = NoProc
               /\ pc' = after_run_payload(NoProc)
               /\ failures' = failures + 1
               /\ UNCHANGED <<job, breaker, timer, ut_signals, clocks,
                              hooks_used>>
          ELSE \E hook \in {"none", "empty_setup", "execute_raises", "started",
                          "no_handle", "raises", "getpgid_raises"},
                  name \in UtilityNames :
                  /\ proc' = NewProc
                  /\ job' = IF hook = "getpgid_raises"
                            THEN [job EXCEPT !.pid = launches + 1]
                            ELSE [run_payload_job(job, launches + 1) EXCEPT
                                     !.utilities = utility_after_payload_started(
                                                       @, hook, name, iteration)]
                  /\ ut_signals' = IF hook = "started"
                                   THEN [ut_signals EXCEPT ![iteration] = 0]
                                   ELSE ut_signals
                  /\ breaker' = FALSE
                  /\ stop_pending' = 0
                  /\ exit_pending' = 0
                  /\ IF hook \in {"raises", "getpgid_raises"}
                     THEN pc' = "raised" /\ UNCHANGED timer
                     ELSE pc' = after_run_payload(NewProc) /\ timer' = ShortPoll
                  /\ hooks_used' =
                        (hooks_used \/ hook \notin {"none", "getpgid_raises"})
                  /\ UNCHANGED failures
    /\ UNCHANGED <<outside, cmd, exit_code, iteration, graceful_stop, i,
                   trace_error_code, pre_exit, errs_before, post_exit,
                   ut_warned>>

\* only an unset exit code counts as a failure
payload_state_unset_only(ec) == IF ec = None THEN "failed" ELSE "finished"

\* line 472: the job state for the exit code wait_graceful returned
payload_state(ec) == IF ec = Some(0) THEN "finished" ELSE "failed"

\* the unset exit code is passed on as it is
normalize_exit_code_unset(ec) == ec

\* line 481-483: an unset exit code of wait_graceful is reset to -1
normalize_exit_code(ec) == IF ec = None THEN Some(-1) ELSE ec

\* line 472-483: classify the iteration by the exit code of wait_graceful
Classify ==
    /\ pc = "classify"
    /\ job' = set_pilot_state(job, payload_state(exit_code))
    /\ exit_code' = normalize_exit_code(exit_code)
    /\ pc' = "postprocess"
    /\ UNCHANGED <<outside, cmd, iteration, proc, graceful_stop, i, breaker, timer,
                   trace_error_code, ut_signals, history, clocks>>

\* the exit code of the payload is kept
postprocess_exit_code_of_payload(payload_code, ec) == payload_code

\* line 494: the exit code of the postprocess command replaces the payload's
postprocess_exit_code(payload_code, ec) == Some(ec)

\* line 485-496: the postprocess step, when the payload did not fail; an
\* exception of the after-payload-finished hook is logged
RunPostprocess ==
    /\ pc = "postprocess"
    /\ IF job.state # "failed"
       THEN \E hook \in {"none", "command", "raises"} :
            \E ec \in IF hook = "command" THEN UtilityExitCodes ELSE {0} :
               /\ hooks_used' = (hooks_used \/ hook # "none")
               /\ IF hook = "command"
                  THEN /\ job' = execute_utility_command(job, "postprocess", ec)
                       /\ exit_code' = postprocess_exit_code(exit_code, ec)
                       /\ post_exit' = Some(ec)
                       /\ failures' = IF ec \notin {0, NoMoreDataPoints}
                                      THEN failures + 1 ELSE failures
                  ELSE UNCHANGED <<job, exit_code, post_exit, failures>>
       ELSE UNCHANGED <<job, exit_code, post_exit, failures, hooks_used>>
    /\ pc' = "teardown"
    /\ UNCHANGED <<outside, cmd, iteration, proc, graceful_stop, i, breaker,
                   timer, trace_error_code, ut_signals, launches, pre_exit,
                   errs_before, ut_warned, clocks>>

\* the test of line 522 left out: every entry is taken to hold a handle
has_handle_unchecked(entry) == entry # 0

\* line 522: utproc is truthy, the entry holds a process handle
has_handle(entry) == entry > 0

\* every handle is sent the kill signal, whether the table holds it or not
stop_utilities_every_handle(utilities, signals, killpg) ==
    [h \in DOMAIN signals |-> signals[h] + 1]

\* stop_utilities: the signal counts after every handle of the table has been
\* sent its kill signal; killpg says whether os.killpg / os.getpgid succeed
\* ("ok") or raise ("raises": logged as a warning and ignored)
stop_utilities(utilities, signals, killpg) ==
    [h \in DOMAIN signals |->
        IF killpg = "ok" /\ \E n \in UtilityNames :
                               has_handle(utilities[n]) /\ utilities[n] = h
        THEN signals[h] + 1
        ELSE signals[h]]

\* stop_utilities: the table of utilities after the call (no entry is removed)
stop_utilities_table(utilities) == utilities

\* stop_utilities, line 528-529: whether the call logs a warning
stop_utilities_warns(utilities, killpg) ==
    killpg = "raises" /\ \E n \in UtilityNames : has_handle(utilities[n])

\* line 498-500: stop the utilities when the table is not empty; a user hook
\* of stop_utilities (kill signal lookup, post-stop action) that raises
\* leaves run; the hooks are only called for an entry that holds a handle
RunStopUtilities ==
    /\ pc = "teardown"
    /\ IF \E n \in UtilityNames : job.utilities[n] # 0
       THEN \E hook \in {"ok", "raises"}, killpg \in {"ok", "raises"} :
               LET live == \E n \in UtilityNames : has_handle(job.utilities[n])
                   hook_raises == live /\ hook = "raises"
               IN  /\ ut_signals' = stop_utilities(job.utilities, ut_signals, killpg)
                   /\ ut_warned' = stop_utilities_warns(job.utilities, killpg)
                   /\ job' = [job EXCEPT
                                 !.utilities = stop_utilities_table(@)]
                   /\ pc' = IF hook_raises THEN "raised" ELSE "loop_end"
       ELSE /\ pc' = "loop_end"
            /\ UNCHANGED <<job, ut_signals, ut_warned>>
    /\ UNCHANGED <<outside, cmd, exit_code, iteration, proc, graceful_stop, i,
                   breaker, timer, trace_error_code, launches, pre_exit,
                   failures, errs_before, post_exit, hooks_used, clocks>>

\* the loop begins before the command is resolved
loop_head_at_resolution == "start"

\* line 440-445: the loop begins after the command has been resolved, with
\* the preprocess step
loop_head == "preprocess"

\* line 502-507: an HPO job starts the next iteration, any other job is done
LoopEnd ==
    /\ pc = "loop_end"
    /\ IF job.is_hpo
       THEN /\ iteration < MaxIterations
            /\ iteration' = iteration + 1
            /\ errs_before' = Len(job.piloterrorcodes)
            /\ pre_exit' = None
            /\ post_exit' = None
            /\ hooks_used' = FALSE
            /\ ut_warned' = FALSE
            /\ pc' = loop_head
       ELSE /\ pc' = "done"
            /\ UNCHANGED <<iteration, errs_before, pre_exit, post_exit,
                           hooks_used, ut_warned>>
    /\ UNCHANGED <<outside, job, cmd, exit_code, proc, graceful_stop, i, breaker,
                   timer, trace_error_code, ut_signals, launches, failures,
                   clocks>>

(* ---------------------------- specifications ---------------------------- *)

WaitGraceful == WgTop \/ WgCheck \/ WgNext \/ WgKill \/ WgPoll

Next ==
    \/ RunSetup
    \/ RunPreprocess
    \/ RunPayload
    \/ WgTop
    \/ WgCheck
    \/ WgNext
    \/ WgKill
    \/ WgPoll
    \/ Classify
    \/ RunPostprocess
    \/ RunStopUtilities
    \/ LoopEnd
    \/ TickRun
    \/ Interrupt
    \/ PayloadExit
    \/ HelperExit

Spec == Init /\ [][Next]_vars

\* one call of wait_graceful: the states in which run enters it in its first
\* iteration, with the command resolved and no utility started
WaitInit ==
    /\ pc = "wg_sleep_short"
    /\ job \in [state : {"running"}, piloterrorcodes : {<<>>},
                is_hpo : BOOLEAN, utilities : {NoUtilities}, pid : {1},
                pgrp : {1}]
    /\ cmd = PayloadCommand
    /\ exit_code = Some(0)
    /\ iteration = 1
    /\ proc = NewProc
    /\ graceful_stop \in BOOLEAN
    /\ i = 0
    /\ breaker = FALSE
    /\ timer = ShortPoll
    /\ trace_error_code = ""
    /\ ut_signals = [k \in 1..MaxIterations |-> 0]
    /\ launches = 1
    /\ pre_exit = Some(0)
    /\ failures = 0
    /\ errs_before = 0
    /\ post_exit = None
    /\ hooks_used = FALSE
    /\ ut_warned = FALSE
    /\ setup_cmd = CommandText(PayloadCommand)
    /\ setup = Some(extract_setup(CommandText(PayloadCommand)))
    /\ jobparams_pre = <<>>
    /\ jobparams_post = <<>>
    /\ WorkflowJoining
    /\ stop_pending = 0
    /\ exit_pending = 0
    /\ AuxiliaryIdle

WaitNext ==
    \/ WgTop
    \/ WgCheck
    \/ WgNext
    \/ WgKill
    \/ WgPoll
    \/ Tick
    \/ Interrupt
    \/ PayloadExit
    \/ HelperExit

\* the supervisor thread keeps running and time keeps passing
FairWaitSpec ==
    WaitInit /\ [][WaitNext]_vars /\ WF_vars(WaitGraceful) /\ WF_vars(Tick)

\* the command strings extract_setup is examined on
Commands == UNION {[1..n -> Chars] : n \in 0..MaxCmdLen}

\* extract_setup on its own: called once, on any command string
ExtractInit ==
    /\ pc = "extract"
    /\ job \in [state : {"setup"}, piloterrorcodes : {<<>>},
                is_hpo : {FALSE}, utilities : {NoUtilities}, pid : {0},
                pgrp : {0}]
    /\ cmd = ""
    /\ exit_code = None
    /\ iteration = 1
    /\ proc = NoProc
    /\ graceful_stop = FALSE
    /\ i = 0
    /\ breaker = FALSE
    /\ timer = 0
    /\ trace_error_code = ""
    /\ ut_signals = [k \in 1..MaxIterations |-> 0]
    /\ launches = 0
    /\ pre_exit = None
    /\ failures = 0
    /\ errs_before = 0
    /\ post_exit = None
    /\ hooks_used = FALSE
    /\ ut_warned = FALSE
    /\ setup_cmd \in Commands
    /\ setup = None
    /\ jobparams_pre = <<>>
    /\ jobparams_post = <<>>
    /\ WorkflowJoining
    /\ stop_pending = 0
    /\ exit_pending = 0
    /\ AuxiliaryIdle

\* line 434: self.__job.setup = self.extract_setup(cmd)
ExtractSetup ==
    /\ pc = "extract"
    /\ setup' = Some(extract_setup(setup_cmd))
    /\ pc' = "extracted"
    /\ UNCHANGED <<workflow, jobparams, auxiliary, job, cmd, exit_code,
                   iteration, proc,
                   graceful_stop, i, breaker, timer, trace_error_code,
                   ut_signals, history, clocks, setup_cmd>>

ExtractNext == ExtractSetup

ExtractSpec == ExtractInit /\ [][ExtractNext]_vars

(* ------------------- rewrite of the job parameters ---------------------- *)
(* In this specification cmd holds the characters of the command.          *)

\* old is found in s at index k
occurs_at(s, old, k) ==
    /\ k + Len(old) - 1 <= Len(s)
    /\ SubSeq(s, k, k + Len(old) - 1) = old

\* old in s
contains(s, old) == \E k \in 1..(Len(s) + 1) : occurs_at(s, old, k)

\* str.replace(old, new): every occurrence of old, scanning from the left,
\* replaced by new; an empty old is found before every character and at the
\* end of the string
RECURSIVE str_replace(_, _, _)
str_replace(s, old, new) ==
    IF old = <<>>
    THEN IF s = <<>> THEN new
         ELSE new \o <<Head(s)>> \o str_replace(Tail(s), old, new)
    ELSE IF Len(s) < Len(old) THEN s
    ELSE IF SubSeq(s, 1, Len(old)) = old
         THEN new \o str_replace(SubSeq(s, Len(old) + 1, Len(s)), old, new)
         ELSE <<Head(s)>> \o str_replace(Tail(s), old, new)

\* line 451-454: cmd after the job parameters were compared
rewrite_command(c, pre, post) ==
    IF pre # post THEN str_replace(c, pre, post) ELSE c

\* the job parameters strings the rewrite is examined on
JobParams == UNION {[1..n -> ParamChars] : n \in 0..MaxParamLen}

\* the preprocess step of the first iteration has returned 0: the resolved
\* command carries the job parameters it was built from, and the preprocess
\* has left any parameters string behind
ReplaceInit ==
    /\ pc = "rewrite"
    /\ job \in [state : {"setup"}, piloterrorcodes : {<<>>},
                is_hpo : BOOLEAN, utilities : {NoUtilities}, pid : {0},
                pgrp : {0}]
    /\ setup_cmd \in Commands
    /\ cmd = setup_cmd
    /\ setup = Some(extract_setup(setup_cmd))
    /\ jobparams_pre \in JobParams
    /\ contains(setup_cmd, jobparams_pre)
    /\ jobparams_post \in JobParams
    /\ exit_code = Some(0)
    /\ iteration = 1
    /\ proc = NoProc
    /\ graceful_stop = FALSE
    /\ i = 0
    /\ breaker = FALSE
    /\ timer = 0
    /\ trace_error_code = ""
    /\ ut_signals = [k \in 1..MaxIterations |-> 0]
    /\ launches = 0
    /\ pre_exit = Some(0)
    /\ failures = 0
    /\ errs_before = 0
    /\ post_exit = None
    /\ hooks_used = TRUE
    /\ ut_warned = FALSE
    /\ WorkflowJoining
    /\ stop_pending = 0
    /\ exit_pending = 0
    /\ AuxiliaryIdle

\* line 451-457: the command is rewritten and handed to run_payload
RewriteCommand ==
    /\ pc = "rewrite"
    /\ cmd' = rewrite_command(cmd, jobparams_pre, jobparams_post)
    /\ pc' = "launch"
    /\ UNCHANGED <<outside, job, exit_code, iteration, proc, graceful_stop, i,
                   breaker, timer, trace_error_code, ut_signals, history,
                   clocks>>

ReplaceNext == RewriteCommand

ReplaceSpec == ReplaceInit /\ [][ReplaceNext]_vars

(* ---------------- transform download (user/rubin/setup.py) -------------- *)
(* A transform URL is a base URL and the path below it.  get_analysis_trf  *)
(* is followed from line 64 on: the transform is not yet in the work       *)
(* directory.                                                              *)

\* what neither the transform download nor the file-state table touches
resting == <<job, cmd, exit_code, iteration, proc, graceful_stop, i, breaker,
             timer, trace_error_code, ut_signals, history, clocks, setup_cmd,
             setup, jobparams, workflow>>

\* Executor.run has not been called
ExecutorIdle ==
    /\ job \in [state : {"setup"}, piloterrorcodes : {<<>>},
                is_hpo : {FALSE}, utilities : {NoUtilities}, pid : {0},
                pgrp : {0}]
    /\ cmd = ""
    /\ exit_code = None
    /\ iteration = 1
    /\ proc = NoProc
    /\ graceful_stop = FALSE
    /\ i = 0
    /\ breaker = FALSE
    /\ timer = 0
    /\ trace_error_code = ""
    /\ ut_signals = [k \in 1..MaxIterations |-> 0]
    /\ launches = 0
    /\ pre_exit = None
    /\ failures = 0
    /\ errs_before = 0
    /\ post_exit = None
    /\ hooks_used = FALSE
    /\ ut_warned = FALSE
    /\ setup_cmd = <<>>
    /\ setup = None
    /\ jobparams_pre = <<>>
    /\ jobparams_post = <<>>
    /\ stop_pending = 0
    /\ exit_pending = 0

\* line 112-113: the valid base URLs
_valid_base_urls ==
    <<"https://storage.googleapis.com/drp-us-central1-containers",
      "http://pandaserver-doma.cern.ch:25080/trf/user">>

\* the base URLs a transform URL may begin with: the valid ones and another
TransformBases ==
    {_valid_base_urls[k] : k \in DOMAIN _valid_base_urls}
        \cup {"http://elsewhere.example/trf"}

\* exit codes of the curl command
CurlExitCodes == {0, 6, 7}

\* the order is ignored
get_valid_base_urls_unordered(order) == _valid_base_urls

\* get_valid_base_urls(order); "" stands for an order that is None or empty
get_valid_base_urls(order) ==
    IF order # ""
    THEN <<order>> \o SelectSeq(_valid_base_urls, LAMBDA url : url # order)
    ELSE _valid_base_urls

\* transform.startswith(base_url)
startswith(transform, base_url) == transform.base = base_url

\* re.sub(original_base_url, base_url, transform)
re_sub(original_base_url, base_url, transform) ==
    [transform EXCEPT !.base = IF @ = original_base_url THEN base_url ELSE @]

\* curl is tried three times also when HARVESTER_WORKDIR is set
download_max_trials_unskipped(harvester) == 3

\* line 140-146: max_trials, set to 0 when HARVESTER_WORKDIR is set
download_max_trials(harvester) == IF harvester THEN 0 ELSE 3

\* get_analysis_trf has been called for a transform that is not in the work
\* directory
TransformInit ==
    /\ pc = "trf_verify"
    /\ harvester_workdir \in BOOLEAN
    /\ trf \in [transform : [base : TransformBases, path : {"/runGen.py"}],
                original_base_url : {""}, urls : {<<>>}, n : {0},
                status : {FALSE}, attempted : {<<>>}, ret : {None}]
    /\ dl = [url |-> trf.transform, trial |-> 1, max_trials |-> 0,
             status |-> FALSE, runs |-> <<>>, sleeps |-> 0,
             copied |-> "none"]
    /\ _file_states = <<>>
    /\ instances = <<>>
    /\ update_args = <<>>
    /\ ExecutorIdle
    /\ WorkflowJoining

\* line 64-74: the base URL of the transform is looked up among the valid
\* ones; without one, TRFDOWNLOADFAILURE is returned
TrfVerify ==
    /\ pc = "trf_verify"
    /\ LET found == SelectSeq(get_valid_base_urls(""),
                              LAMBDA b : startswith(trf.transform, b))
           original == IF found = <<>> THEN "" ELSE Head(found)
       IN  IF original = ""
           THEN /\ trf' = [trf EXCEPT !.ret =
                              Some([ec |-> "TRFDOWNLOADFAILURE",
                                    transform_name |-> ""])]
                /\ pc' = "trf_returned"
           ELSE /\ trf' = [trf EXCEPT !.original_base_url = original,
                                      !.urls = get_valid_base_urls(original),
                                      !.n = 1]
                /\ pc' = "trf_loop"
    /\ UNCHANGED <<resting, harvester_workdir, dl, filestate>>

\* line 78-81, 135-154: the next base URL of the list, if any, is put in
\* place of the original one and download_transform is called; with
\* HARVESTER_WORKDIR set it copies the local file, which works or raises
TrfLoop ==
    /\ pc = "trf_loop"
    /\ IF trf.n > Len(trf.urls)
       THEN pc' = "trf_after" /\ UNCHANGED dl
       ELSE \E copy \in {"ok", "failed"} :
               /\ dl' = [url |-> re_sub(trf.original_base_url,
                                        trf.urls[trf.n], trf.transform),
                         trial |-> 1,
                         max_trials |-> download_max_trials(harvester_workdir),
                         status |-> (harvester_workdir /\ copy = "ok"),
                         runs |-> <<>>,
                         sleeps |-> 0,
                         copied |-> IF harvester_workdir THEN copy ELSE "none"]
               /\ pc' = "dl_loop"
    /\ UNCHANGED <<resting, harvester_workdir, trf, filestate>>

\* line 157-177: one trial of the curl command, if one is left
DlTrial ==
    /\ pc = "dl_loop"
    /\ IF dl.trial <= dl.max_trials
       THEN \E exit \in CurlExitCodes :
               IF exit # 0
               THEN IF dl.trial = dl.max_trials
                    THEN /\ dl' = [dl EXCEPT !.runs = Append(@, exit),
                                             !.status = FALSE]
                         /\ pc' = "dl_return"
                    ELSE /\ dl' = [dl EXCEPT !.runs = Append(@, exit)]
                         /\ pc' = "dl_sleep"
               ELSE /\ dl' = [dl EXCEPT !.runs = Append(@, exit),
                                        !.status = TRUE]
                    /\ pc' = "dl_return"
       ELSE pc' = "dl_return" /\ UNCHANGED dl
    /\ UNCHANGED <<resting, harvester_workdir, trf, filestate>>

\* line 173, 178: sleep(60), then the next trial
DlSleep ==
    /\ pc = "dl_sleep"
    /\ dl' = [dl EXCEPT !.sleeps = @ + 1, !.trial = @ + 1]
    /\ pc' = "dl_loop"
    /\ UNCHANGED <<resting, harvester_workdir, trf, filestate>>

\* line 180, 81-83: download_transform returns its status; the loop over
\* the base URLs ends with the first download that succeeded
DlReturn ==
    /\ pc = "dl_return"
    /\ trf' = [trf EXCEPT !.status = dl.status,
                          !.attempted = Append(@, [base |-> dl.url.base,
                                                   status |-> dl.status]),
                          !.n = IF dl.status THEN @ ELSE @ + 1]
    /\ pc' = IF dl.status THEN "trf_after" ELSE "trf_loop"
    /\ UNCHANGED <<resting, harvester_workdir, dl, filestate>>

\* line 85-97: without a download TRFDOWNLOADFAILURE is returned; else the
\* file is made executable (os.chmod may raise: CHMODTRF)
TrfAfter ==
    /\ pc = "trf_after"
    /\ \E chmod \in {"ok", "raises"} :
          trf' = [trf EXCEPT !.ret =
                     IF ~trf.status
                     THEN Some([ec |-> "TRFDOWNLOADFAILURE",
                                transform_name |-> ""])
                     ELSE IF chmod = "raises"
                     THEN Some([ec |-> "CHMODTRF", transform_name |-> ""])
                     ELSE Some([ec |-> "0",
                                transform_name |-> trf.transform.path])]
    /\ pc' = "trf_returned"
    /\ UNCHANGED <<resting, harvester_workdir, dl, filestate>>

TransformNext ==
    \/ TrfVerify
    \/ TrfLoop
    \/ DlTrial
    \/ DlSleep
    \/ DlReturn
    \/ TrfAfter

TransformSpec == TransformInit /\ [][TransformNext]_vars

(* --------------------- file states (util/filestate.py) ------------------ *)
(* _file_states is an attribute of the class (line 23) that no instance    *)
(* ever rebinds: self._file_states is that one dictionary for every        *)
(* instance.  A dictionary is a function on the keys it holds.             *)

\* the LFNs of the example in the class (line 18)
LFNs == {"LFN1.DAT", "LFN2.DAT"}

\* line 25
_state_list ==
    <<"NOT_YET_TRANSFERRED", "TRANSFER_IN_PROGRESS", "TRANSFERRED",
      "TRANSFER_FAILED">>

\* the arguments an update call may get: an LFN or '', a state of the list,
\* '' or a state outside the list
UpdateLfns == LFNs \cup {""}
UpdateStates == {_state_list[k] : k \in DOMAIN _state_list} \cup {"", "UNKNOWN"}

\* d[key] = value
setitem(d, key, value) ==
    [x \in DOMAIN d \cup {key} |-> IF x = key THEN value ELSE d[x]]

\* every state is accepted
valid_state_any(state) == TRUE

\* line 59: state in self._state_list
valid_state(state) == \E k \in DOMAIN _state_list : _state_list[k] = state

\* line 35-41: set_initial_list on the dictionary d
RECURSIVE set_initial_list(_, _)
set_initial_list(d, lfns) ==
    IF lfns = {} THEN d
    ELSE LET lfn == CHOOSE x \in lfns : TRUE
         IN  set_initial_list(setitem(d, lfn, "NOT_YET_TRANSFERRED"),
                              lfns \ {lfn})

\* line 43-48: get_file_states of the instance self
get_file_states(self) == _file_states

\* no FileState has been created
FileStateInit ==
    /\ pc = "idle"
    /\ _file_states = [x \in {} |-> ""]
    /\ instances = <<>>
    /\ update_args = <<>>
    /\ harvester_workdir = FALSE
    /\ trf = <<>>
    /\ dl = <<>>
    /\ ExecutorIdle
    /\ WorkflowJoining

\* line 27-41: FileState(file_states={'lfns': lfns})
Construct ==
    /\ Len(instances) < MaxInstances
    /\ \E lfns \in SUBSET LFNs :
          /\ instances' = Append(instances, [_lfns |-> lfns])
          /\ _file_states' = set_initial_list(_file_states, lfns)
    /\ UNCHANGED <<resting, pc, harvester_workdir, trf, dl, update_args>>

\* line 50-63: self.update(lfn, state)
Update ==
    /\ \E self \in DOMAIN instances, lfn \in UpdateLfns, state \in UpdateStates :
          /\ update_args' = <<self, lfn, state>>
          /\ _file_states' =
                IF lfn = "" \/ state = "" THEN _file_states
                ELSE IF ~valid_state(state) THEN _file_states
                ELSE setitem(_file_states, lfn, state)
    /\ UNCHANGED <<resting, pc, harvester_workdir, trf, dl, instances>>

FileStateNext == Construct \/ Update

FileStateSpec == FileStateInit /\ [][FileStateNext]_vars

(* ------------------------ workflow: run(args) --------------------------- *)
(* The stage loops (job.control, payload.control, data.control,            *)
(* lifetime.control, monitor.control) are started by run(args) and are not *)
(* part of the source at hand.  They are modelled by what is required of   *)
(* every stage loop: it runs until it observes the cancellation flag, it   *)
(* takes a job off a queue, and it puts the job it holds on exactly one    *)
(* queue.                                                                  *)

\* the state of Executor.run, which the workflow does not touch
executor == <<pc, job, cmd, exit_code, iteration, proc, i, breaker, timer,
              trace_error_code, ut_signals, history, clocks, setup_cmd, setup,
              jobparams, auxiliary>>

\* the index in threads of the worker of a stage
ThreadOf(w) == CHOOSE t \in 1..Len(Targets) : Targets[t] = w

\* threads that have ended are counted too
activeCount_with_ended(th) == 1 + Cardinality({t \in DOMAIN th : th[t] # "none"})

\* threading.activeCount(): the main thread and every worker that is alive
activeCount(th) == 1 + Cardinality({t \in DOMAIN th : th[t] = "started"})

\* the join loop goes on while two workers or more are alive
keep_joining_but_one(th) == activeCount(th) > 2

\* line 126: the condition of the join loop
keep_joining(th) == activeCount(th) > 1

\* run(args) has been called
WorkflowInit ==
    /\ wpc = "signal"
    /\ handler = FALSE
    /\ threads = [t \in 1..Len(Targets) |-> "none"]
    /\ starts = [t \in 1..Len(Targets) |-> 0]
    /\ nth = 0
    /\ queues = [q \in QueueNames |-> <<>>]
    /\ held = [w \in StageWorkers |-> NoJob]
    /\ traces = [state |-> SUCCESS, nr_jobs |-> 0]
    /\ ret = None
    /\ graceful_stop = FALSE
    /\ pc = "start"
    /\ job \in [state : {"setup"}, piloterrorcodes : {<<>>},
                is_hpo : {FALSE}, utilities : {NoUtilities}, pid : {0},
                pgrp : {0}]
    /\ cmd = ""
    /\ exit_code = None
    /\ iteration = 1
    /\ proc = NoProc
    /\ i = 0
    /\ breaker = FALSE
    /\ timer = 0
    /\ trace_error_code = ""
    /\ ut_signals = [h \in 1..MaxIterations |-> 0]
    /\ launches = 0
    /\ pre_exit = None
    /\ failures = 0
    /\ errs_before = 0
    /\ post_exit = None
    /\ hooks_used = FALSE
    /\ ut_warned = FALSE
    /\ setup_cmd = <<>>
    /\ setup = None
    /\ jobparams_pre = <<>>
    /\ jobparams_post = <<>>
    /\ stop_pending = 0
    /\ exit_pending = 0
    /\ AuxiliaryIdle

\* line 61-62: interrupt becomes the handler of SIGINT
InstallHandler ==
    /\ wpc = "signal"
    /\ handler' = TRUE
    /\ wpc' = "setup"
    /\ UNCHANGED <<executor, graceful_stop, threads, starts, nth, queues, held,
                   traces, ret>>

\* line 64-98: the queues, traces.pilot and the thread objects are created
SetUp ==
    /\ wpc = "setup"
    /\ queues' = [q \in QueueNames |-> <<>>]
    /\ traces' = [state |-> SUCCESS, nr_jobs |-> 0]
    /\ threads' = [t \in 1..Len(Targets) |-> "created"]
    /\ nth' = 1
    /\ wpc' = "start"
    /\ UNCHANGED <<executor, graceful_stop, handler, starts, held, ret>>

\* line 121: t.start() for the next thread of the list
StartThread ==
    /\ wpc = "start"
    /\ threads' = [threads EXCEPT ![nth] = "started"]
    /\ starts' = [starts EXCEPT ![nth] = @ + 1]
    /\ IF nth < Len(Targets)
       THEN nth' = nth + 1 /\ UNCHANGED wpc
       ELSE nth' = 0 /\ wpc' = "join_check"
    /\ UNCHANGED <<executor, graceful_stop, handler, queues, held, traces, ret>>

\* line 126, 129: the test of the join loop; when it fails run returns traces
JoinCheck ==
    /\ wpc = "join_check"
    /\ IF keep_joining(threads)
       THEN wpc' = "join" /\ UNCHANGED ret
       ELSE wpc' = "returned" /\ ret' = Some(traces)
    /\ UNCHANGED <<executor, graceful_stop, handler, threads, starts, nth,
                   queues, held, traces>>

\* line 127: one pass of t.join(timeout=1) over the threads; each join
\* returns when its thread has ended or the second is over, and changes
\* nothing
JoinAll ==
    /\ wpc = "join"
    /\ wpc' = "join_check"
    /\ UNCHANGED <<executor, graceful_stop, handler, threads, starts, nth,
                   queues, held, traces, ret>>

\* a stage worker is in its loop and has not observed the cancellation flag
Running(w) == threads[ThreadOf(w)] = "started" /\ ~graceful_stop

\* the job stage places the next job on the jobs queue and counts it
Admit ==
    /\ Running("job")
    /\ traces.nr_jobs < MaxJobs
    /\ queues' = [queues EXCEPT ![queue_object("jobs")] =
                                   Append(@, traces.nr_jobs + 1)]
    /\ traces' = [traces EXCEPT !.nr_jobs = @ + 1]
    /\ UNCHANGED <<executor, graceful_stop, wpc, handler, threads, starts, nth,
                   held, ret>>

\* a stage worker takes the oldest job off a queue
StageGet ==
    \E w \in StageWorkers, q \in QueueNames :
        /\ Running(w)
        /\ held[w] = NoJob
        /\ on_queue(q) # <<>>
        /\ held' = [held EXCEPT ![w] = Head(on_queue(q))]
        /\ queues' = [queues EXCEPT ![queue_object(q)] = Tail(@)]
        /\ UNCHANGED <<executor, graceful_stop, wpc, handler, threads, starts,
                       nth, traces, ret>>

\* a stage worker puts the job it holds on exactly one queue
StagePut ==
    \E w \in StageWorkers, q \in QueueNames :
        /\ threads[ThreadOf(w)] = "started"
        /\ held[w] # NoJob
        /\ queues' = [queues EXCEPT ![queue_object(q)] = Append(@, held[w])]
        /\ held' = [held EXCEPT ![w] = NoJob]
        /\ UNCHANGED <<executor, graceful_stop, wpc, handler, threads, starts,
                       nth, traces, ret>>

\* a worker that has observed the cancellation flag, and holds no job, ends
WorkerExit ==
    \E t \in 1..Len(Targets) :
        /\ threads[t] = "started"
        /\ graceful_stop
        /\ Targets[t] \in StageWorkers => held[Targets[t]] = NoJob
        /\ threads' = [threads EXCEPT ![t] = "exited"]
        /\ UNCHANGED <<executor, graceful_stop, wpc, handler, starts, nth,
                       queues, held, traces, ret>>

WorkflowNext ==
    \/ InstallHandler
    \/ SetUp
    \/ StartThread
    \/ JoinCheck
    \/ JoinAll
    \/ Admit
    \/ StageGet
    \/ StagePut
    \/ WorkerExit
    \/ Interrupt

WorkflowSpec == WorkflowInit /\ [][WorkflowNext]_vars

\* an exception ends the target function of a worker thread: the thread is
\* over (threading prints the traceback), whatever job it holds stays with it
WorkerCrash ==
    \E t \in 1..Len(Targets) :
        /\ threads[t] = "started"
        /\ threads' = [threads EXCEPT ![t] = "crashed"]
        /\ UNCHANGED <<executor, graceful_stop, wpc, handler, starts, nth,
                       queues, held, traces, ret>>

\* the steps of the main thread in run(args)
Orchestrator == InstallHandler \/ SetUp \/ StartThread \/ JoinCheck \/ JoinAll

CrashWorkflowNext ==
    \/ InstallHandler
    \/ SetUp
    \/ StartThread
    \/ JoinCheck
    \/ JoinAll
    \/ WorkerExit
    \/ WorkerCrash
    \/ Interrupt

\* run(args) with workers that may end by an exception, at any moment of
\* their life (no job is followed through the queues here); the main thread
\* keeps running: no step of it blocks, each join returns within its second
FairWorkflowSpec ==
    WorkflowInit /\ [][CrashWorkflowNext]_vars /\ WF_vars(Orchestrator)

(* -------------------------------- claims -------------------------------- *)

\* wait_graceful is supervising the payload
Supervising == pc \in WaitPcs

\* wait_graceful has returned to run, which has not yet classified the result
Returned == pc = "classify"

\* wait_graceful has returned on the cancellation path
Cancelled == Returned /\ breaker

\* the payload ended on its own while the cancellation flag was not set
ExitedBeforeStop == proc.status = "exited" /\ proc.before_stop

\* C1: when the payload exits on its own before the cancellation flag is set,
\* no SIGTERM and no kill is ever sent, and wait_graceful returns the
\* payload's own exit code
C1_NaturalCompletionPrecedence ==
    ExitedBeforeStop =>
        /\ proc.sigterms = 0
        /\ proc.kills = 0
        /\ Returned => exit_code = Some(proc.code)

\* C2: while wait_graceful supervises a running payload, a stop request is
\* never pending for more than one coarse poll interval before SIGTERM is sent
\* to the process group
C2_SigtermWithinCoarsePoll ==
    (Supervising /\ proc.status = "running" /\ graceful_stop /\ ~breaker)
        => stop_pending <= CoarsePoll

\* C3: during the grace period SIGTERM has been sent and the kill has not;
\* when wait_graceful has returned on the cancellation path the kill has been
\* sent too and the payload process is no longer running
C3_KilledAfterGracePeriod ==
    /\ pc = "wg_grace" => (proc.sigterms = 1 /\ proc.kills = 0)
    /\ Cancelled =>
          /\ proc.sigterms = 1
          /\ proc.kills = 1
          /\ proc.status \in {"killed", "exited"}

\* C3 witness: the payload ignored SIGTERM and was killed
C3_Witness == Cancelled /\ proc.status = "killed"

\* C4: when wait_graceful has returned on the cancellation path, no member of
\* the payload's process group is alive, neither the leader nor its helper
C4_WholeGroupTerminated ==
    Cancelled => (proc.status # "running" /\ ~proc.helper)

\* C5: under fairness of the supervisor loop and of time, a call of
\* wait_graceful in which the payload has exited or the cancellation flag is
\* set eventually returns
C5_WaitTerminates ==
    (Supervising /\ (graceful_stop \/ proc.status = "exited")) ~> ~Supervising

\* C5 witness: the flag was set, the cancellation path has completed and
\* wait_graceful has returned; the payload ended after the flag was set
C5_Witness ==
    Returned /\ breaker /\ proc.status = "exited" /\ ~proc.before_stop

\* C6: while cancellation is not set, the exit of the payload is never
\* undetected for more than one short poll interval
C6_PromptDetection ==
    (Supervising /\ proc.status = "exited" /\ ~graceful_stop)
        => exit_pending <= ShortPoll

\* C7: when the preprocess step returns the sentinel 160, run leaves the loop
\* and returns 0, no error is appended in that iteration and run_payload is
\* not called in it
C7_SentinelEndsLoop ==
    pre_exit = Some(NoMoreDataPoints) =>
        /\ pc = "done"
        /\ exit_code = Some(0)
        /\ Len(job.piloterrorcodes) = errs_before
        /\ launches = iteration - 1

\* C7 witness: an HPO job whose second preprocess reports exhaustion
C7_Witness ==
    pc = "done" /\ pre_exit = Some(NoMoreDataPoints) /\ iteration = 2

\* C8: the error list holds exactly one entry per failure event (command
\* resolution, preprocess, postprocess, launch)
C8_OneEntryPerFailure == Len(job.piloterrorcodes) = failures

\* the command builder raised a PilotException
ResolutionFailed == trace_error_code # ""

\* run has returned because run_payload returned None
LaunchFailed == pc = "done" /\ pre_exit = Some(0) /\ proc.status = "none"

\* C9: when run_payload returns None (here for a command that was resolved),
\* a launch failure is appended to the error list and the job's final state
\* is failed
C9_LaunchFailureRecorded ==
    (LaunchFailed /\ ~ResolutionFailed) =>
        /\ job.state = "failed"
        /\ Len(job.piloterrorcodes) = errs_before + 1

\* C10: when the command builder raises a structured error, the error code is
\* appended, the command is empty, and run neither runs the preprocess step
\* nor launches a payload
C10_EmptyCommandIsFatal ==
    ResolutionFailed =>
        /\ cmd = ""
        /\ Len(job.piloterrorcodes) >= 1
        /\ job.piloterrorcodes[1] = trace_error_code
        /\ pre_exit = None
        /\ launches = 0

\* the last entry of the job's error list ("" when the list is empty)
LastError ==
    IF job.piloterrorcodes = <<>> THEN ""
    ELSE job.piloterrorcodes[Len(job.piloterrorcodes)]

\* the preprocess command of the iteration failed
PreprocessFailed ==
    /\ pre_exit # None
    /\ pre_exit # Some(0)
    /\ pre_exit # Some(NoMoreDataPoints)

\* C11: when the preprocess command exits with a non-zero code other than
\* 160 (here for a command that was resolved), a preprocess-failure code is
\* appended, the job state is failed, run has left the loop and the payload
\* was not launched in that iteration
C11_PreprocessFailureMarksFailed ==
    (PreprocessFailed /\ ~ResolutionFailed) =>
        /\ pc = "done"
        /\ Len(job.piloterrorcodes) > errs_before
        /\ LastError = "PREPROCESSFAILURE"
        /\ launches = iteration - 1
        /\ job.state = "failed"

\* the postprocess command was executed in the iteration
PostprocessRan == post_exit # None

\* the payload of the iteration was launched and wait_graceful returned 0
PayloadSucceeded == proc.status = "exited" /\ proc.code = 0 /\ ~breaker

\* C12 as stated (here for a command that was resolved): the postprocess
\* command runs only after a payload that was launched and ended with 0; any
\* non-zero exit of it appends a postprocess-failure code, and the job state
\* stays finished
C12_NonZeroPostprocessRecorded ==
    (PostprocessRan /\ ~ResolutionFailed) =>
        /\ PayloadSucceeded
        /\ job.state = "finished"
        /\ post_exit # Some(0) =>
              /\ Len(job.piloterrorcodes) = errs_before + 1
              /\ LastError = "POSTPROCESSFAILURE"

\* C12 as amended: the postprocess command runs only after a payload that
\* was launched and ended with 0; a non-zero exit of it other than 160
\* appends a postprocess-failure code, an exit with 0 or 160 appends nothing,
\* and the job state stays finished
C12_PostprocessGatedAndIsolated ==
    PostprocessRan =>
        /\ PayloadSucceeded
        /\ job.state = "finished"
        /\ IF post_exit \in {Some(0), Some(NoMoreDataPoints)}
           THEN Len(job.piloterrorcodes) = errs_before
           ELSE /\ Len(job.piloterrorcodes) = errs_before + 1
                /\ LastError = "POSTPROCESSFAILURE"

\* C12 witness: run has returned after a postprocess command that failed
C12_Witness ==
    pc = "done" /\ post_exit = Some(1) /\ job.state = "finished"

\* C13: when the teardown of an iteration is over, the utility table is empty
C13_TeardownClearsTable ==
    pc = "loop_end" => \A n \in UtilityNames : job.utilities[n] = 0

\* no entry of the utility table holds a process handle
NoHandleRegistered ==
    \A n \in UtilityNames : job.utilities[n] \in {0, EmptyHandle}

SuccessScenario ==
    /\ ~job.is_hpo
    /\ cmd = PayloadCommand
    /\ pre_exit = Some(0)
    /\ ~hooks_used
    /\ failures = 0
    /\ ~graceful_stop
    /\ proc.status \in {"none", "exited"}
    /\ proc.status = "exited" => proc.code = 0

\* C16: in the success scenario run ends by returning 0, after exactly one
\* launch, with the job finished, no postprocess command executed and the
\* utility table empty
C16_SuccessPath ==
    (SuccessScenario /\ pc \in {"done", "raised"}) =>
        /\ pc = "done"
        /\ launches = 1
        /\ exit_code = Some(0)
        /\ job.state = "finished"
        /\ post_exit = None
        /\ \A n \in UtilityNames : job.utilities[n] = 0

\* a string with its blanks removed
RECURSIVE Unspaced(_)
Unspaced(s) ==
    IF s = <<>> THEN <<>>
    ELSE IF Head(s) = " " THEN Unspaced(Tail(s))
    ELSE <<Head(s)>> \o Unspaced(Tail(s))

\* a string with its trailing semicolons and blanks removed
RECURSIVE Untrailed(_)
Untrailed(s) ==
    IF s # <<>> /\ s[Len(s)] \in {";", " "}
    THEN Untrailed(SubSeq(s, 1, Len(s) - 1)) ELSE s

\* the command with its final clause and all trailing semicolons removed
FinalClauseRemoved(command) ==
    LET c == Untrailed(lstrip(command))
    IN  SubSeq(c, 1, Len(c) - Len(strip(split_last(c))))

\* C17: job.setup is the command with exactly its final semicolon-delimited
\* clause (and all trailing semicolons) removed, blanks aside
C17_SetupIsCommandWithoutFinalClause ==
    setup # None =>
        Unspaced(setup[1]) = Unspaced(FinalClauseRemoved(setup_cmd))

\* C18: once args.graceful_stop is set no step clears it, and an interrupt
\* delivered while it is set changes nothing
C18_FlagSetOnce ==
    [][/\ graceful_stop => graceful_stop'
       /\ (Interrupt /\ graceful_stop) => UNCHANGED vars]_vars

\* C18 witness: the flag was set, wait_graceful acted on it, and it is still
\* set when run has returned
C18_Witness == pc = "done" /\ graceful_stop /\ breaker

\* C20: Executor.run never ends by propagating an exception
C20_NoEscapingErrors == pc # "raised"

\* the number of places of a queue a job is at
Places(name, j) == Cardinality({n \in 1..Len(on_queue(name)) : on_queue(name)[n] = j})

C19_ReturnsAfterAllWorkersExited ==
    /\ wpc \in {"join_check", "join", "returned"} =>
          \A t \in 1..Len(Targets) : starts[t] = 1
    /\ wpc = "returned" =>
          /\ \A t \in 1..Len(Targets) : threads[t] = "exited"
          /\ ret = Some(traces)
          /\ DOMAIN traces = {"state", "nr_jobs"}

\* C19 witness: run(args) has returned after jobs were processed
C19_Witness == wpc = "returned" /\ traces.nr_jobs = MaxJobs


\* C21: run never returns an unset exit code; when wait_graceful returned an
\* unset exit code (the cancellation path), the exit code of the iteration is
\* -1 and the job state is failed
C21_ExitCodeNormalized ==
    /\ pc = "done" => exit_code # None
    /\ (breaker /\ pc \in {"postprocess", "teardown", "loop_end"}) =>
          /\ exit_code = Some(-1)
          /\ job.state = "failed"

\* C21 witness: run has returned -1 after a cancelled payload
C21_Witness ==
    pc = "done" /\ breaker /\ exit_code = Some(-1) /\ job.state = "failed"

\* C22: a utility is started and registered under a name only when no
\* earlier instance is registered under that name
C22_SingleUtilityPerName ==
    [][\A n \in UtilityNames :
          (job'.utilities[n] > 0 /\ job'.utilities[n] # job.utilities[n])
              => job.utilities[n] \in {0, EmptyHandle}]_vars

\* run has ended, by returning or by an exception
Ended == pc \in {"done", "raised"}

\* C23: a job that is no HPO job stays in iteration 1 and is launched once
\* at most; a run of an HPO job (here with the command resolved) ends only
\* by the sentinel of the preprocess step, a preprocess failure or a launch
\* failure
C23_IterationCount ==
    /\ ~job.is_hpo => (iteration = 1 /\ launches <= 1)
    /\ (job.is_hpo /\ Ended /\ cmd = PayloadCommand) =>
          /\ pc = "done"
          /\ \/ pre_exit = Some(NoMoreDataPoints)
             \/ PreprocessFailed
             \/ LaunchFailed

\* the place of a position of run in the order of the steps of an iteration
StageRank(p) ==
    CASE p = "start" -> 0
      [] p = "preprocess" -> 1
      [] p = "launch" -> 2
      [] p \in WaitPcs \cup {"classify"} -> 3
      [] p = "postprocess" -> 4
      [] p = "teardown" -> 5
      [] p = "loop_end" -> 6
      [] OTHER -> 7

one_replaced(c0, c1, old, new) ==
    \E k \in 1..(Len(c0) + 1) :
        /\ occurs_at(c0, old, k)
        /\ c1 = SubSeq(c0, 1, k - 1) \o new
                   \o SubSeq(c0, k + Len(old), Len(c0))

\* C25: the command handed to run_payload is the resolved command when the
\* preprocess left the job parameters as they were, and else the resolved
\* command with the old parameters replaced by the new ones and nothing else
\* changed
C25_RewriteReflected ==
    pc = "launch" =>
        IF jobparams_pre = jobparams_post
        THEN cmd = setup_cmd
        ELSE one_replaced(setup_cmd, cmd, jobparams_pre, jobparams_post)


\* C26: while wait_graceful supervises the payload, the job carries the pid
\* and the process-group id of the process launched last and its state is
\* running; when the result has been classified the state is finished if
\* wait_graceful returned 0 and failed otherwise
C26_LaunchPostcondition ==
    /\ Supervising =>
          /\ job.state = "running"
          /\ job.pid = launches
          /\ job.pgrp = getpgid(job.pid)
    /\ pc = "postprocess" =>
          job.state = (IF exit_code = Some(0) THEN "finished" ELSE "failed")

\* C26 witness: the payload of the second iteration has ended with 0 and has
\* been classified
C26_Witness ==
    pc = "postprocess" /\ job.state = "finished" /\ job.pid = 2

\* C27: a payload process that runs is under the supervision of
\* wait_graceful
C27_LaunchedIsSupervised == proc.status = "running" => Supervising

\* a step of run in which run_payload returns None
LaunchFails == pc = "launch" /\ failures' = failures + 1

\* C28: when run_payload returns None, run leaves the loop at once, for any
\* job: no payload process exists, the exit code, the job and the signals
\* sent to utilities stay as they were, no postprocess command was executed
\* in the iteration, and run, once it has returned, takes no further step
C28_LaunchFailureLeavesLoop ==
    [][/\ LaunchFails =>
             /\ pc' = "done"
             /\ proc' = NoProc
             /\ exit_code' = exit_code
             /\ job' = job
             /\ ut_signals' = ut_signals
             /\ post_exit' = None
             /\ iteration' = iteration
       /\ pc = "done" => pc' = "done"]_vars

\* C28 witness: the launch of the second iteration of an HPO job failed,
\* with a utility of the first iteration still in the table
C28_Witness ==
    /\ LaunchFailed
    /\ job.is_hpo
    /\ iteration = 2
    /\ \E n \in UtilityNames : job.utilities[n] = 1

\* C29: SIGTERM is sent to a payload once, on the cancellation flag and
\* before any kill; the kill is sent once, when the grace period that began
\* with the SIGTERM is over; after the kill no signal is sent
C29_TwoTierEscalation ==
    [][/\ proc'.sigterms > proc.sigterms =>
             /\ pc = "wg_for"
             /\ graceful_stop
             /\ proc.sigterms = 0
             /\ proc.kills = 0
             /\ proc'.sigterms = 1
             /\ pc' = "wg_grace"
             /\ timer' = GracePeriod
       /\ proc'.kills > proc.kills =>
             /\ pc = "wg_grace"
             /\ timer = 0
             /\ proc.sigterms = 1
             /\ proc.kills = 0
             /\ proc'.kills = 1]_vars

\* C29 witness: run has returned after a payload that ignored SIGTERM and
\* was killed
C29_Witness ==
    pc = "done" /\ proc.sigterms = 1 /\ proc.kills = 1
        /\ proc.status = "killed"

AllWorkersEnded ==
    \A t \in 1..Len(Targets) : threads[t] \in {"exited", "crashed"}

\* C31: a worker that ends by an exception does not end run(args): run
\* returns only when every worker has ended and stays returned; and when
\* every worker has ended (after the cancellation flag was set, or by an
\* exception), run leaves its join loop and returns
C31_OrchestratorLiveness ==
    /\ [](wpc = "returned" => AllWorkersEnded)
    /\ [][wpc = "returned" => wpc' = "returned"]_vars
    /\ AllWorkersEnded ~> wpc = "returned"

\* C31 witness: run(args) has returned after one worker ended by an
\* exception and another after it observed the cancellation flag
C31_Witness ==
    /\ wpc = "returned"
    /\ \E t \in 1..Len(Targets) : threads[t] = "crashed"
    /\ \E t \in 1..Len(Targets) : threads[t] = "exited"


\* C32: on the cancellation path wait_graceful returns an unset exit code,
\* also when the payload had ended on its own before the kill; run then
\* marks the job failed, sets the exit code of the iteration to -1 and
\* executes no postprocess command
C32_CancellationOutcome ==
    /\ Cancelled => exit_code = None
    /\ (breaker /\ pc \in {"postprocess", "teardown", "loop_end"}) =>
          /\ job.state = "failed"
          /\ exit_code = Some(-1)
          /\ post_exit = None

\* C32 witness: the payload ended with 0 during the grace period, and the
\* iteration ended as failed with -1
C32_Witness ==
    /\ pc = "loop_end"
    /\ breaker
    /\ proc.status = "exited"
    /\ proc.code = 0
    /\ exit_code = Some(-1)

\* C33: with the cancellation flag set run launches no payload process, and
\* after a payload was terminated on cancellation no further iteration begins
C33_CancellationEndsRun ==
    [][/\ (pc = "launch" /\ proc'.status = "running") => ~graceful_stop
       /\ (pc = "loop_end" /\ breaker) => pc' # "preprocess"]_vars

\* C34: run returns 0 (here for a command that was resolved) only when the
\* last iteration ended with the sentinel of the preprocess step or with a
\* payload that was launched and ended with 0, the job then being finished
C34_ReturnValueAgrees ==
    (pc = "done" /\ exit_code = Some(0) /\ cmd = PayloadCommand) =>
        \/ pre_exit = Some(NoMoreDataPoints)
        \/ PayloadSucceeded /\ job.state = "finished"

\* C35: once the postprocess command of an iteration was executed, the exit
\* code of the iteration is the exit code of that command, whatever the
\* payload's was, and the job state is finished
C35_PostprocessOverridesCode ==
    PostprocessRan => (exit_code = post_exit /\ job.state = "finished")

\* C35 witness: run has returned 160 for a payload that ended with 0
C35_Witness ==
    /\ pc = "done"
    /\ proc.code = 0
    /\ exit_code = Some(NoMoreDataPoints)
    /\ job.state = "finished"

\* C36: stop_utilities signals only the handle started in the current
\* iteration, and no handle that was signalled before
C36_NoStaleHandles ==
    [][\A h \in DOMAIN ut_signals :
          ut_signals'[h] # ut_signals[h] =>
              (h = iteration /\ ut_signals[h] = 0)]_vars

\* a download_transform call is under way or about to return
Downloading == pc \in {"dl_loop", "dl_sleep", "dl_return"}

\* C37: without HARVESTER_WORKDIR download_transform runs curl at most three
\* times, stops at the first exit code 0, has slept once per failed trial
\* that was not the last, and returns true exactly when a trial ended with
\* 0; with HARVESTER_WORKDIR it runs no curl and returns what the copy gave
C37_BoundedDownloadRetry ==
    /\ Downloading =>
          /\ Len(dl.runs) <= 3
          /\ \A k \in 1..(Len(dl.runs) - 1) : dl.runs[k] # 0
          /\ dl.sleeps <= Cardinality({k \in DOMAIN dl.runs : dl.runs[k] # 0})
          /\ harvester_workdir => dl.runs = <<>>
    /\ pc = "dl_return" =>
          IF harvester_workdir
          THEN dl.sleeps = 0 /\ dl.status = (dl.copied = "ok")
          ELSE /\ Len(dl.runs) >= 1
               /\ dl.sleeps = Len(dl.runs) - 1
               /\ dl.status = (dl.runs[Len(dl.runs)] = 0)
               /\ ~dl.status => Len(dl.runs) = 3

\* C37 witness: the third trial of curl is the one that succeeds
C37_Witness ==
    /\ pc = "dl_return"
    /\ ~harvester_workdir
    /\ Len(dl.runs) = 3
    /\ dl.sleeps = 2
    /\ dl.status

\* the number of places of seq that hold x
Occurrences(seq, x) == Cardinality({k \in DOMAIN seq : seq[k] = x})

\* the result of a get_analysis_trf call that found no transform
DownloadFailed ==
    trf.ret = Some([ec |-> "TRFDOWNLOADFAILURE", transform_name |-> ""])

ListedStates == {_state_list[k] : k \in DOMAIN _state_list}

\* C39: every value of the file-state table is one of the four states; a
\* construction leaves each of its LFNs at NOT_YET_TRANSFERRED; an update
\* with an empty lfn, an empty state or a state outside the list leaves the
\* table as it was; any other update sets the entry of its LFN and changes
\* no other entry
C39_FileStateValidity ==
    /\ [](\A lfn \in DOMAIN _file_states : _file_states[lfn] \in ListedStates)
    /\ [][/\ Len(instances') > Len(instances) =>
               \A lfn \in instances'[Len(instances')]._lfns :
                   /\ lfn \in DOMAIN _file_states'
                   /\ _file_states'[lfn] = "NOT_YET_TRANSFERRED"
          /\ update_args' # update_args =>
               LET lfn == update_args'[2]
                   state == update_args'[3]
               IN  IF lfn = "" \/ state = "" \/ state \notin ListedStates
                   THEN _file_states' = _file_states
                   ELSE /\ DOMAIN _file_states' = DOMAIN _file_states \cup {lfn}
                        /\ _file_states'[lfn] = state
                        /\ \A other \in DOMAIN _file_states \ {lfn} :
                              _file_states'[other] = _file_states[other]]_vars

\* C39 witness: of two LFNs given at construction one was updated to
\* TRANSFERRED and the other is still NOT_YET_TRANSFERRED
C39_Witness ==
    /\ Len(instances) = 1
    /\ instances[1]._lfns = LFNs
    /\ update_args = <<1, "LFN1.DAT", "TRANSFERRED">>
    /\ DOMAIN _file_states = LFNs
    /\ _file_states["LFN1.DAT"] = "TRANSFERRED"
    /\ _file_states["LFN2.DAT"] = "NOT_YET_TRANSFERRED"

\* C40: creating a further instance, or an update call on another
\* instance, changes of no instance created before what get_file_states
\* returns for it, and the table of a new instance holds exactly the LFNs
\* it was created with
C40_InstancesIndependent ==
    [][/\ Len(instances') > Len(instances) =>
           /\ \A earlier \in DOMAIN instances :
                 get_file_states(earlier)' = get_file_states(earlier)
           /\ DOMAIN get_file_states(Len(instances'))' =
                 instances'[Len(instances')]._lfns
       /\ update_args' # update_args =>
           \A other \in DOMAIN instances \ {update_args'[1]} :
               get_file_states(other)' = get_file_states(other)]_vars

=============================================================================
